---- MODULE Spec2Model ----
(***************************************************************************)
(* The remote view-state controller of the Sparelens dashboard.           *)
(*                                                                         *)
(* The repository holds two DashboardPage components:                      *)
(*   "manual"  src/unnamed/part_003  (manual pagination, handleSort)       *)
(*   "table"   src/unnamed/part_002  (table library, onSortingChange)      *)
(* A behaviour of the model runs one of them (variant).  The React state   *)
(* of the component is the model's state; a request that has been sent     *)
(* and not yet answered is an element of filesReqs / dataReqs / chartReqs  *)
(* holding the values its closure captured when it was issued.  An event   *)
(* handler or a completion runs to the end together with the re-render and *)
(* the effects the re-render triggers (Settle).                            *)
(***************************************************************************)
EXTENDS Integers, Sequences, FiniteSets, TLC

VARIABLES
    variant,            \* which DashboardPage is running
    files,              \* useState<UploadedFile[]>      (ids)
    selectedFileId,     \* useState<string | null>
    tableData,          \* useState<TableData | null>
    chartData,          \* useState<ChartApiResponse | null>
    currentPage,        \* useState(1)
    pageSize,           \* useState(10)
    sortColumn,         \* manual: useState<string | null>(null)
    sortOrder,          \* manual: useState<"asc" | "desc">("asc")
    sorting,            \* table:  useState<SortingState>([])
    searchQuery,        \* manual: useState<string>("")
    globalFilter,       \* table:  useState<string>("")
    selectedXColumn,    \* useState<string | null>(null)
    selectedYColumn,    \* useState<string | null>(null)
    selectedChartType,  \* useState<string>("bar")
    isLoadingTable,     \* useState(false)
    isLoadingChart,     \* useState(false)
    isUploading,        \* useState(false)
    fileUploadError,    \* useState<string | null>(null)
    dataFetchError,     \* useState<string | null>(null)
    chartFetchError,    \* useState<string | null>(null)
    filesReqs,          \* GET /files/ requests in flight, in issue order, each
                        \* with the selectedFileId its fetchFiles captured and
                        \* its caller (by): the effect or handleFileUpload
    dataReqs,           \* GET /data/{id} requests in flight, in issue order
    chartReqs,          \* GET /charts/{id} requests in flight, in issue order
    uploadReqs,         \* POST /uploadfile/ requests in flight
    serverFiles,        \* the remote service's file list
    uploads,            \* number of files the remote service ever stored
    steps,              \* events so far: handlers, completions, service changes
    ev                  \* the last event: its handler or completion (op), its
                        \* input or request (arg), the view state it began in
                        \* (pre), and the streams whose fetch has failed since
                        \* the last user event or completed upload (failed)

view == << files, selectedFileId, tableData, chartData, currentPage, pageSize,
           sortColumn, sortOrder, sorting, searchQuery, globalFilter,
           selectedXColumn, selectedYColumn, selectedChartType,
           isLoadingTable, isLoadingChart, isUploading, fileUploadError,
           dataFetchError, chartFetchError,
           filesReqs, dataReqs, chartReqs, uploadReqs >>

vars == << variant, view, serverFiles, uploads, steps, ev >>

-----------------------------------------------------------------------------
(* Bounds of the model *)

MaxSteps == 6
MaxPageIndex == 1
MaxActions == 1

(* JavaScript null for the string-valued state, and for the object-valued *)
null == "<null>"
noData == <<>>

Variants == {"manual", "table"}

(* The remote service: the datasets it may hold, in upload order, their     *)
(* columns, row counts and rows; f0 has a single column, f3 is a file      *)
(* without columns                                                         *)
FileIds == <<"f0", "f1", "f2", "f3">>

Columns(fileId) ==
    IF fileId = "f0" THEN <<"c">>
    ELSE IF fileId = "f1" THEN <<"a", "b">>
    ELSE IF fileId = "f2" THEN <<"b", "c">>
    ELSE <<>>

Filters == {"", "q", "qr"}

TotalCount(fileId, query) ==
    IF query # "" THEN 0
    ELSE IF fileId = "f0" THEN 2
    ELSE IF fileId = "f1" THEN 7
    ELSE IF fileId = "f2" THEN 3
    ELSE 0

(* typeof of a cell, row counted over the whole result set: column b of f1 *)
(* holds numbers, column a of f1 holds numbers from its sixth row on,      *)
(* every other cell text                                                   *)
CellType(fileId, col, row) ==
    IF fileId = "f1" /\ col = "b" THEN "number"
    ELSE IF fileId = "f1" /\ col = "a" /\ row >= 6 THEN "number"
    ELSE "string"

(* the page size Select: the values of its items, as the strings they are, *)
(* and Number(value) of each                                               *)
PageSizeItems == {"5", "10", "25", "50"}

Number(value) ==
    IF value = "5" THEN 5
    ELSE IF value = "10" THEN 10
    ELSE IF value = "25" THEN 25
    ELSE 50

PageSizes == { Number(value) : value \in PageSizeItems }
ChartTypes == {"bar", "line", "pie"}

Min(a, b) == IF a < b THEN a ELSE b
Max(a, b) == IF a > b THEN a ELSE b

(* Math.ceil(total / size) *)
Ceil(total, size) == (total + size - 1) \div size

(* columns.includes(c) *)
Includes(cols, c) == \E i \in DOMAIN cols : cols[i] = c

-----------------------------------------------------------------------------
(* The component's state as one record: what a render's closures capture *)

Cur ==
    [ files |-> files, selectedFileId |-> selectedFileId,
      tableData |-> tableData, chartData |-> chartData,
      currentPage |-> currentPage, pageSize |-> pageSize,
      sortColumn |-> sortColumn, sortOrder |-> sortOrder, sorting |-> sorting,
      searchQuery |-> searchQuery, globalFilter |-> globalFilter,
      selectedXColumn |-> selectedXColumn, selectedYColumn |-> selectedYColumn,
      selectedChartType |-> selectedChartType,
      isLoadingTable |-> isLoadingTable, isLoadingChart |-> isLoadingChart,
      isUploading |-> isUploading, fileUploadError |-> fileUploadError,
      dataFetchError |-> dataFetchError, chartFetchError |-> chartFetchError,
      filesReqs |-> filesReqs, dataReqs |-> dataReqs, chartReqs |-> chartReqs,
      uploadReqs |-> uploadReqs ]

(* The state of the next render is s *)
Put(s) ==
    /\ files' = s.files
    /\ selectedFileId' = s.selectedFileId
    /\ tableData' = s.tableData
    /\ chartData' = s.chartData
    /\ currentPage' = s.currentPage
    /\ pageSize' = s.pageSize
    /\ sortColumn' = s.sortColumn
    /\ sortOrder' = s.sortOrder
    /\ sorting' = s.sorting
    /\ searchQuery' = s.searchQuery
    /\ globalFilter' = s.globalFilter
    /\ selectedXColumn' = s.selectedXColumn
    /\ selectedYColumn' = s.selectedYColumn
    /\ selectedChartType' = s.selectedChartType
    /\ isLoadingTable' = s.isLoadingTable
    /\ isLoadingChart' = s.isLoadingChart
    /\ isUploading' = s.isUploading
    /\ fileUploadError' = s.fileUploadError
    /\ dataFetchError' = s.dataFetchError
    /\ chartFetchError' = s.chartFetchError
    /\ filesReqs' = s.filesReqs
    /\ dataReqs' = s.dataReqs
    /\ chartReqs' = s.chartReqs
    /\ uploadReqs' = s.uploadReqs

(* seq without its i-th element *)
Without(seq, i) == SubSeq(seq, 1, i - 1) \o SubSeq(seq, i + 1, Len(seq))

-----------------------------------------------------------------------------
(* Requests and the remote service's answers *)

(* a query parameter the request does not carry *)
undefined == "<undefined>"

FilesError == "Failed to fetch files."
DataError == "Failed to fetch data."
ChartError == "Failed to fetch chart data. Check column types or backend logs."
NoFileError == "No file selected."
UploadError == "Error uploading file."

(* fetchData's params and URL, with the X/Y columns its closure captured *)
DataRequest(v, c) ==
    IF v = "manual"
    THEN [ file |-> c.selectedFileId, page |-> c.currentPage,
           page_size |-> c.pageSize, sort_by |-> c.sortColumn,
           sort_order |-> c.sortOrder, search_query |-> c.searchQuery,
           x |-> c.selectedXColumn, y |-> c.selectedYColumn ]
    ELSE [ file |-> c.selectedFileId, page |-> c.currentPage,
           page_size |-> c.pageSize,
           sort_by |-> IF Len(c.sorting) > 0 THEN c.sorting[1].id ELSE undefined,
           sort_order |-> IF Len(c.sorting) > 0
                          THEN (IF c.sorting[1].desc THEN "desc" ELSE "asc")
                          ELSE undefined,
           search_query |-> c.globalFilter,
           x |-> null, y |-> null ]

(* the table-page key: what the request asks the service for *)
KeyOf(req) ==
    [ file |-> req.file, page |-> req.page, page_size |-> req.page_size,
      sort_by |-> req.sort_by, sort_order |-> req.sort_order,
      search_query |-> req.search_query ]

(* the key the current view state asks for *)
TableKey == KeyOf(DataRequest(variant, Cur))

ChartRequest(c) ==
    [ file |-> c.selectedFileId, chart_type |-> c.selectedChartType,
      x_column |-> c.selectedXColumn, y_column |-> c.selectedYColumn ]

ChartKey == ChartRequest(Cur)

(* number of rows of the page the key asks for *)
RowsOnPage(key) ==
    IF key.page < 1 THEN 0
    ELSE Max(0, Min(key.page_size,
                    TotalCount(key.file, key.search_query)
                      - (key.page - 1) * key.page_size))

(* TableData the service answers a table-page request with *)
TableResponse(req) ==
    [ key |-> KeyOf(req),
      columns |-> Columns(req.file),
      total_count |-> TotalCount(req.file, req.search_query),
      data |-> [ i \in 1..RowsOnPage(KeyOf(req)) |->
                   [ col \in { Columns(req.file)[j] : j \in DOMAIN Columns(req.file) }
                       |-> CellType(req.file, col,
                                    (req.page - 1) * req.page_size + i) ] ] ]

(* ChartApiResponse the service answers a chart request with *)
ChartResponse(req) == [ key |-> req ]

-----------------------------------------------------------------------------
(* Column inference: the same statements in fetchData (manual) and in the   *)
(* inference effect (table)                                                *)

(* rows.slice(0, 5).some(row => typeof row[col] === "number" && !isNaN)    *)
HasNumericSample(data, col) ==
    \E i \in 1..Min(5, Len(data)) : data[i][col] = "number"

(* columns.find(col => ...): the first such column, or undefined *)
NumericColumn(columns, data) ==
    IF \E j \in DOMAIN columns : HasNumericSample(data, columns[j])
    THEN columns[CHOOSE j \in DOMAIN columns :
                    /\ HasNumericSample(data, columns[j])
                    /\ \A k \in 1..(j - 1) : ~HasNumericSample(data, columns[k])]
    ELSE undefined

(* x, y: the values the running closure captured; cur: the state's value,  *)
(* which stays when the closure's value is in columns and nothing is set   *)
InferX(columns, x, cur) ==
    IF x = null \/ ~Includes(columns, x) THEN columns[1] ELSE cur

(* Y inference without the last fallback to the first column *)
InferY_noFirstColumn(columns, data, y, cur) ==
    IF y = null \/ ~Includes(columns, y)
    THEN IF NumericColumn(columns, data) # undefined
         THEN NumericColumn(columns, data)
         ELSE IF Len(columns) >= 2 THEN columns[2] ELSE null
    ELSE cur

InferY(columns, data, y, cur) ==
    IF y = null \/ ~Includes(columns, y)
    THEN IF NumericColumn(columns, data) # undefined
         THEN NumericColumn(columns, data)
         ELSE IF Len(columns) >= 2 THEN columns[2] ELSE columns[1]
    ELSE cur

(* inference that leaves X and Y alone when the page has no columns *)
InferColumns_keepsOnEmpty(td, x, y, a) ==
    IF Len(td.columns) > 0
    THEN [a EXCEPT !.selectedXColumn = InferX(td.columns, x, @),
                   !.selectedYColumn = InferY(td.columns, td.data, y, @)]
    ELSE a

(* the state a after inference on td by a closure that captured x, y *)
InferColumns(td, x, y, a) ==
    IF Len(td.columns) > 0
    THEN [a EXCEPT !.selectedXColumn = InferX(td.columns, x, @),
                   !.selectedYColumn = InferY(td.columns, td.data, y, @)]
    ELSE [a EXCEPT !.selectedXColumn = null, !.selectedYColumn = null]

-----------------------------------------------------------------------------
(* Effects.  c is the state of the render whose closures run, a the state  *)
(* the setState calls made so far lead to.                                 *)

(* fetchFiles up to its await *)
fetchFilesStart(c, a) ==
    [a EXCEPT !.filesReqs = Append(@, [sel |-> c.selectedFileId, by |-> "effect"])]

(* fetchData that leaves the previous error in place *)
fetchDataStart_keepsError(c, a) ==
    IF c.selectedFileId = null
    THEN [a EXCEPT !.tableData = noData]
    ELSE [a EXCEPT !.isLoadingTable = TRUE,
                   !.dataReqs = Append(@, DataRequest(variant, c))]

(* fetchData up to its await *)
fetchDataStart(c, a) ==
    IF c.selectedFileId = null
    THEN [a EXCEPT !.tableData = noData]
    ELSE [a EXCEPT !.isLoadingTable = TRUE,
                   !.dataFetchError = null,
                   !.dataReqs = Append(@, DataRequest(variant, c))]

(* fetchChartData that tests only the selected file before it asks *)
fetchChartDataStart_noColumnGuard(c, a) ==
    IF c.selectedFileId = null
    THEN [a EXCEPT !.chartData = noData]
    ELSE [a EXCEPT !.isLoadingChart = TRUE,
                   !.chartFetchError = null,
                   !.chartReqs = Append(@, ChartRequest(c))]

(* fetchChartData up to its await *)
fetchChartDataStart(c, a) ==
    IF c.selectedFileId = null \/ c.selectedXColumn = null
                               \/ c.selectedYColumn = null
    THEN [a EXCEPT !.chartData = noData]
    ELSE [a EXCEPT !.isLoadingChart = TRUE,
                   !.chartFetchError = null,
                   !.chartReqs = Append(@, ChartRequest(c))]

(* the inference effect of the table variant *)
inferenceEffect(c, a) ==
    IF c.tableData = noData THEN a
    ELSE InferColumns(c.tableData, c.selectedXColumn, c.selectedYColumn, a)

(* dependency lists: has the memoised callback / the effect to run again?  *)
(* fresh names the state set to a new array or object of the same value    *)
NoFresh == [sorting |-> FALSE, tableData |-> FALSE]

FilesDeps(p, c) == p.selectedFileId # c.selectedFileId

(* fetchData whose dependency list lacks the filter text *)
DataDeps_withoutFilter(p, c, fresh) ==
    \/ p.selectedFileId # c.selectedFileId
    \/ p.currentPage # c.currentPage
    \/ p.pageSize # c.pageSize
    \/ /\ variant = "manual"
       /\ \/ p.sortColumn # c.sortColumn
          \/ p.sortOrder # c.sortOrder
          \/ p.selectedXColumn # c.selectedXColumn
          \/ p.selectedYColumn # c.selectedYColumn
    \/ /\ variant = "table"
       /\ \/ p.sorting # c.sorting
          \/ fresh.sorting

(* fetchData whose dependency list names tableData as well *)
DataDeps_withTableData(p, c, fresh) ==
    \/ p.selectedFileId # c.selectedFileId
    \/ p.currentPage # c.currentPage
    \/ p.pageSize # c.pageSize
    \/ p.tableData # c.tableData
    \/ fresh.tableData
    \/ /\ variant = "manual"
       /\ \/ p.sortColumn # c.sortColumn
          \/ p.sortOrder # c.sortOrder
          \/ p.searchQuery # c.searchQuery
          \/ p.selectedXColumn # c.selectedXColumn
          \/ p.selectedYColumn # c.selectedYColumn
    \/ /\ variant = "table"
       /\ \/ p.sorting # c.sorting
          \/ fresh.sorting
          \/ p.globalFilter # c.globalFilter

DataDeps(p, c, fresh) ==
    \/ p.selectedFileId # c.selectedFileId
    \/ p.currentPage # c.currentPage
    \/ p.pageSize # c.pageSize
    \/ /\ variant = "manual"
       /\ \/ p.sortColumn # c.sortColumn
          \/ p.sortOrder # c.sortOrder
          \/ p.searchQuery # c.searchQuery
          \/ p.selectedXColumn # c.selectedXColumn
          \/ p.selectedYColumn # c.selectedYColumn
    \/ /\ variant = "table"
       /\ \/ p.sorting # c.sorting
          \/ fresh.sorting
          \/ p.globalFilter # c.globalFilter

InferDeps(p, c, fresh) ==
    /\ variant = "table"
    /\ \/ p.tableData # c.tableData
       \/ fresh.tableData
       \/ p.selectedXColumn # c.selectedXColumn
       \/ p.selectedYColumn # c.selectedYColumn

ChartDeps(p, c) ==
    \/ p.selectedFileId # c.selectedFileId
    \/ p.selectedChartType # c.selectedChartType
    \/ p.selectedXColumn # c.selectedXColumn
    \/ p.selectedYColumn # c.selectedYColumn

(* the effects of one commit, in the order the component declares them *)
RunEffects(p, c, fresh) ==
    LET a1 == IF FilesDeps(p, c) THEN fetchFilesStart(c, c) ELSE c
        a2 == IF DataDeps(p, c, fresh) THEN fetchDataStart(c, a1) ELSE a1
        a3 == IF InferDeps(p, c, fresh) THEN inferenceEffect(c, a2) ELSE a2
        a4 == IF ChartDeps(p, c) THEN fetchChartDataStart(c, a3) ELSE a3
    IN  a4

(* render c after render p, run its effects, render again, until no effect *)
(* has anything left to do                                                 *)
RECURSIVE Settle(_, _, _)
Settle(p, c, fresh) ==
    IF ~( FilesDeps(p, c) \/ DataDeps(p, c, fresh)
          \/ InferDeps(p, c, fresh) \/ ChartDeps(p, c) )
    THEN c
    ELSE Settle(c, RunEffects(p, c, fresh), NoFresh)

-----------------------------------------------------------------------------
(* Event handlers: the state their setState calls lead to, from render c   *)

(* handleFileSelect that forgets to clear the filter text and the page *)
handleFileSelect_keepsFilter(c, fileId) ==
    IF variant = "manual"
    THEN [c EXCEPT !.selectedFileId = fileId, !.sortColumn = null]
    ELSE [c EXCEPT !.selectedFileId = fileId, !.sorting = <<>>]

(* handleFileSelect of the manual variant *)
handleFileSelectManual(c, fileId) ==
    [c EXCEPT !.selectedFileId = fileId, !.currentPage = 1,
              !.sortColumn = null, !.searchQuery = ""]

(* the table variant's handleFileSelect without setGlobalFilter("") *)
handleFileSelectTable_keepsFilter(c, fileId) ==
    [c EXCEPT !.selectedFileId = fileId, !.currentPage = 1,
              !.sorting = <<>>]

(* handleFileSelect of the table variant *)
handleFileSelectTable(c, fileId) ==
    [c EXCEPT !.selectedFileId = fileId, !.currentPage = 1,
              !.sorting = <<>>, !.globalFilter = ""]

handleFileSelect(c, fileId) ==
    IF variant = "manual"
    THEN handleFileSelectManual(c, fileId)
    ELSE handleFileSelectTable(c, fileId)

(* handleSort that keeps the previous direction for a new column *)
handleSort_keepsOrder(c, column) ==
    IF c.sortColumn = column
    THEN [c EXCEPT !.sortOrder = IF c.sortOrder = "asc" THEN "desc" ELSE "asc"]
    ELSE [c EXCEPT !.sortColumn = column]

(* manual *)
handleSort(c, column) ==
    IF c.sortColumn = column
    THEN [c EXCEPT !.sortOrder = IF c.sortOrder = "asc" THEN "desc" ELSE "asc"]
    ELSE [c EXCEPT !.sortColumn = column, !.sortOrder = "asc"]

(* manual: the search Input's onChange *)
searchOnChange(c, text) == [c EXCEPT !.searchQuery = text]

(* manual: totalPages of render c *)
totalPages(c) ==
    IF c.tableData # noData
    THEN Ceil(c.tableData.total_count, c.pageSize)
    ELSE 0

(* manual: PaginationPrevious / PaginationNext onClick *)
paginationPrevious(c) == [c EXCEPT !.currentPage = Max(1, c.currentPage - 1)]

paginationNext(c) ==
    [c EXCEPT !.currentPage = Min(totalPages(c), c.currentPage + 1)]

(* a page size Select that reads only the first digit of the value *)
pageSizeOnValueChange_firstDigit(c, value) ==
    [c EXCEPT !.pageSize = IF value = "10" THEN 1
                           ELSE IF value = "25" THEN 2
                           ELSE 5]

(* manual: the page size Select's onValueChange *)
pageSizeOnValueChange(c, value) == [c EXCEPT !.pageSize = Number(value)]

(* onSortingChange without its setCurrentPage(1) *)
onSortingChange_keepsPage(c, newSorting) == [c EXCEPT !.sorting = newSorting]

(* table: newSorting is what the updater makes of c.sorting *)
onSortingChange(c, newSorting) ==
    [c EXCEPT !.sorting = newSorting, !.currentPage = 1]

(* onPaginationChange that clears the filter when the page size changes *)
onPaginationChange_clearsFilter(c, newPagination) ==
    [c EXCEPT !.pageSize = newPagination.pageSize,
              !.currentPage = IF newPagination.pageSize # c.pageSize
                              THEN 1
                              ELSE newPagination.pageIndex + 1,
              !.globalFilter = IF newPagination.pageSize # c.pageSize
                               THEN ""
                               ELSE c.globalFilter]

(* table: newPagination is what the updater makes of the current pagination *)
onPaginationChange(c, newPagination) ==
    [c EXCEPT !.pageSize = newPagination.pageSize,
              !.currentPage = IF newPagination.pageSize # c.pageSize
                              THEN 1
                              ELSE newPagination.pageIndex + 1]

(* table: the filter Input's onChange *)
filterOnChange(c, text) == [c EXCEPT !.globalFilter = text, !.currentPage = 1]

(* an X column Select that also clears the sort *)
xColumnOnValueChange_clearsSort(c, col) ==
    [c EXCEPT !.selectedXColumn = col, !.sortColumn = null, !.sorting = <<>>]

(* the chart Selects' onValueChange *)
chartTypeOnValueChange(c, type) == [c EXCEPT !.selectedChartType = type]
xColumnOnValueChange(c, col) == [c EXCEPT !.selectedXColumn = col]
yColumnOnValueChange(c, col) == [c EXCEPT !.selectedYColumn = col]

(* handleFileUpload up to its await; picked: a file was chosen *)
handleFileUploadStart(c, picked) ==
    IF ~picked
    THEN [c EXCEPT !.fileUploadError = NoFileError]
    ELSE [c EXCEPT !.isUploading = TRUE, !.fileUploadError = null,
                   !.uploadReqs = Append(@, [sel |-> c.selectedFileId])]

-----------------------------------------------------------------------------
(* What the component renders: which handlers the user can reach *)

FileListShown == dataFetchError = null /\ Len(files) > 0

TableCardShown ==
    /\ selectedFileId # null
    /\ dataFetchError = null
    /\ ~(isLoadingTable /\ tableData = noData)
    /\ (variant = "table" => tableData # noData)

SearchEnabled == ~isLoadingTable /\ selectedFileId # null

ChartSelectsEnabled ==
    /\ selectedFileId # null
    /\ tableData # noData
    /\ Len(tableData.columns) > 0

ShownColumns ==
    IF tableData = noData THEN {}
    ELSE { tableData.columns[j] : j \in DOMAIN tableData.columns }

(* the SortingState values over the shown columns: no sort, or one column *)
SortingStates ==
    {<<>>} \cup { <<[id |-> col, desc |-> d]>> : col \in ShownColumns, d \in BOOLEAN }

(* table: the Previous / Next links take pointer events only when the       *)
(* table can go there; pageCount is totalPages of the current render       *)
getCanPreviousPage == currentPage - 1 > 0

getCanNextPage ==
    totalPages(Cur) # 0 /\ currentPage - 1 < totalPages(Cur) - 1

(* the PaginationState values the rendered controls hand to                *)
(* onPaginationChange: previousPage, nextPage, and setPageSize with        *)
(* another size and the page index the table computes for it               *)
PaginationStates ==
    { p \in [pageIndex : 0..MaxPageIndex, pageSize : PageSizes] :
          p.pageSize # pageSize }
    \cup ( IF getCanPreviousPage
           THEN { [pageIndex |-> currentPage - 2, pageSize |-> pageSize] }
           ELSE {} )
    \cup ( IF getCanNextPage
           THEN { [pageIndex |-> currentPage, pageSize |-> pageSize] }
           ELSE {} )

-----------------------------------------------------------------------------
(* Actions *)

(* the view state an event starts from *)
Pre ==
    [ selectedFileId |-> selectedFileId, currentPage |-> currentPage,
      pageSize |-> pageSize, sortColumn |-> sortColumn, sortOrder |-> sortOrder,
      sorting |-> sorting, searchQuery |-> searchQuery,
      globalFilter |-> globalFilter, selectedChartType |-> selectedChartType,
      selectedXColumn |-> selectedXColumn, selectedYColumn |-> selectedYColumn,
      dataFetchError |-> dataFetchError ]

(* a user event: the handler led to state s; re-render and run the effects *)
UserEvent(op, arg, s, fresh) ==
    /\ steps < MaxSteps
    /\ steps' = steps + 1
    /\ Put(Settle(Cur, s, fresh))
    /\ ev' = [op |-> op, arg |-> arg, pre |-> Pre, failed |-> {}]
    /\ UNCHANGED << variant, serverFiles, uploads >>

HandleFileSelect ==
    \E fileId \in { files[i] : i \in DOMAIN files } :
        /\ FileListShown
        /\ UserEvent("handleFileSelect", fileId, handleFileSelect(Cur, fileId),
                     [NoFresh EXCEPT !.sorting = (variant = "table")])

HandleSort ==
    \E column \in ShownColumns :
        /\ variant = "manual"
        /\ TableCardShown
        /\ UserEvent("handleSort", column, handleSort(Cur, column), NoFresh)

SearchOnChange ==
    \E text \in Filters \ {searchQuery} :
        /\ variant = "manual"
        /\ SearchEnabled
        /\ UserEvent("searchOnChange", text, searchOnChange(Cur, text), NoFresh)

PaginationPrevious ==
    /\ variant = "manual"
    /\ TableCardShown
    /\ UserEvent("paginationPrevious", "", paginationPrevious(Cur), NoFresh)

PaginationNext ==
    /\ variant = "manual"
    /\ TableCardShown
    /\ UserEvent("paginationNext", "", paginationNext(Cur), NoFresh)

PageSizeOnValueChange ==
    \E value \in { v \in PageSizeItems : Number(v) # pageSize } :
        /\ variant = "manual"
        /\ TableCardShown
        /\ UserEvent("pageSizeOnValueChange", value,
                     pageSizeOnValueChange(Cur, value),
                     NoFresh)

OnSortingChange ==
    \E newSorting \in SortingStates :
        /\ variant = "table"
        /\ TableCardShown
        /\ UserEvent("onSortingChange", newSorting, onSortingChange(Cur, newSorting),
                     [NoFresh EXCEPT !.sorting = TRUE])

OnPaginationChange ==
    \E newPagination \in PaginationStates :
        /\ variant = "table"
        /\ TableCardShown
        /\ UserEvent("onPaginationChange", newPagination,
                     onPaginationChange(Cur, newPagination), NoFresh)

FilterOnChange ==
    \E text \in Filters \ {globalFilter} :
        /\ variant = "table"
        /\ TableCardShown
        /\ UserEvent("filterOnChange", text, filterOnChange(Cur, text), NoFresh)

ChartTypeOnValueChange ==
    \E type \in ChartTypes \ {selectedChartType} :
        /\ ChartSelectsEnabled
        /\ UserEvent("chartTypeOnValueChange", type,
                     chartTypeOnValueChange(Cur, type), NoFresh)

XColumnOnValueChange ==
    \E col \in ShownColumns \ {selectedXColumn} :
        /\ ChartSelectsEnabled
        /\ UserEvent("xColumnOnValueChange", col,
                     xColumnOnValueChange(Cur, col), NoFresh)

YColumnOnValueChange ==
    \E col \in ShownColumns \ {selectedYColumn} :
        /\ ChartSelectsEnabled
        /\ UserEvent("yColumnOnValueChange", col,
                     yColumnOnValueChange(Cur, col), NoFresh)

HandleFileUpload ==
    \E picked \in BOOLEAN :
        /\ ~isUploading
        /\ UserEvent("handleFileUpload", picked,
                     handleFileUploadStart(Cur, picked), NoFresh)

-----------------------------------------------------------------------------
(* Completions: the rest of an async function after its await, run with    *)
(* the values req captured when the request was issued                     *)

(* fetchFiles after a successful GET /files/ answering list *)
fetchFilesThen(req, list, a) ==
    LET b == [a EXCEPT !.files = list] IN
    IF Len(list) > 0 /\ req.sel = null
    THEN [b EXCEPT !.selectedFileId = list[1]]
    ELSE IF Len(list) = 0 /\ req.sel # null
    THEN [b EXCEPT !.selectedFileId = null]
    ELSE IF req.sel # null /\ ~Includes(list, req.sel)
    THEN [b EXCEPT !.selectedFileId = IF Len(list) > 0 THEN list[1] ELSE null]
    ELSE b

fetchFilesCatch(a) == [a EXCEPT !.dataFetchError = FilesError]

(* fetchData after a successful GET /data/{id}, with its finally *)
fetchDataThen(req, a) ==
    LET td == TableResponse(req)
        b == [a EXCEPT !.tableData = td]
        c == IF variant = "manual" THEN InferColumns(td, req.x, req.y, b) ELSE b
    IN  [c EXCEPT !.isLoadingTable = FALSE]

(* fetchData's catch that clears the chart too *)
fetchDataCatch_clearsChart(a) ==
    [a EXCEPT !.tableData = noData, !.chartData = noData,
              !.dataFetchError = DataError, !.isLoadingTable = FALSE]

(* fetchData's catch and finally *)
fetchDataCatch(a) ==
    [a EXCEPT !.tableData = noData, !.dataFetchError = DataError,
              !.isLoadingTable = FALSE]

(* fetchChartData after a successful GET /charts/{id}, with its finally *)
fetchChartDataThen(req, a) ==
    [a EXCEPT !.chartData = ChartResponse(req), !.isLoadingChart = FALSE]

(* fetchChartData's catch that reports into the table's error state *)
fetchChartDataCatch_tableError(a) ==
    [a EXCEPT !.chartData = noData, !.dataFetchError = ChartError,
              !.isLoadingChart = FALSE]

(* fetchChartData's catch and finally *)
fetchChartDataCatch(a) ==
    [a EXCEPT !.chartData = noData, !.chartFetchError = ChartError,
              !.isLoadingChart = FALSE]

(* handleFileUpload after a successful POST: the fetchFiles it captured *)
handleFileUploadThen(req, a) ==
    [a EXCEPT !.filesReqs = Append(@, [sel |-> req.sel, by |-> "upload"]),
              !.isUploading = FALSE]

handleFileUploadCatch(a) ==
    [a EXCEPT !.fileUploadError = UploadError, !.isUploading = FALSE]

(* the stream a catch block belongs to *)
FailedStream ==
    [ x \in { "fetchFiles.catch", "fetchData.catch", "fetchChartData.catch" } |->
        IF x = "fetchFiles.catch" THEN "files"
        ELSE IF x = "fetchData.catch" THEN "table" ELSE "chart" ]

(* a completion led to state s; re-render and run the effects *)
(* the continuation of an awaited request commits state s: re-render and   *)
(* effects until nothing is left to do                                     *)
Commit(op, req, s, fresh) ==
    /\ \E settled \in { Settle(Cur, s, fresh) } : Put(settled)
    /\ ev' = [op |-> op, arg |-> req, pre |-> Pre,
              failed |-> IF op = "handleFileUpload.then" THEN {}
                         ELSE IF op \in DOMAIN FailedStream
                         THEN ev.failed \cup {FailedStream[op]}
                         ELSE ev.failed]
    /\ UNCHANGED variant

Completion(op, req, s, fresh) ==
    /\ steps < MaxSteps
    /\ steps' = steps + 1
    /\ Commit(op, req, s, fresh)

FetchFilesResolve ==
    \E i \in DOMAIN filesReqs :
        /\ Completion("fetchFiles.then", filesReqs[i],
                      fetchFilesThen(filesReqs[i], serverFiles,
                                     [Cur EXCEPT !.filesReqs = Without(@, i)]),
                      NoFresh)
        /\ UNCHANGED << serverFiles, uploads >>

FetchFilesReject ==
    \E i \in DOMAIN filesReqs :
        /\ Completion("fetchFiles.catch", filesReqs[i],
                      fetchFilesCatch([Cur EXCEPT !.filesReqs = Without(@, i)]),
                      NoFresh)
        /\ UNCHANGED << serverFiles, uploads >>

FetchDataResolve ==
    \E i \in DOMAIN dataReqs :
        /\ Completion("fetchData.then", dataReqs[i],
                      fetchDataThen(dataReqs[i],
                                    [Cur EXCEPT !.dataReqs = Without(@, i)]),
                      [NoFresh EXCEPT !.tableData = TRUE])
        /\ UNCHANGED << serverFiles, uploads >>

FetchDataReject ==
    \E i \in DOMAIN dataReqs :
        /\ Completion("fetchData.catch", dataReqs[i],
                      fetchDataCatch([Cur EXCEPT !.dataReqs = Without(@, i)]),
                      NoFresh)
        /\ UNCHANGED << serverFiles, uploads >>

FetchChartDataResolve ==
    \E i \in DOMAIN chartReqs :
        /\ Completion("fetchChartData.then", chartReqs[i],
                      fetchChartDataThen(chartReqs[i],
                                         [Cur EXCEPT !.chartReqs = Without(@, i)]),
                      NoFresh)
        /\ UNCHANGED << serverFiles, uploads >>

FetchChartDataReject ==
    \E i \in DOMAIN chartReqs :
        /\ Completion("fetchChartData.catch", chartReqs[i],
                      fetchChartDataCatch([Cur EXCEPT !.chartReqs = Without(@, i)]),
                      NoFresh)
        /\ UNCHANGED << serverFiles, uploads >>

(* the POST succeeds: the service stores the file, at either end of its list *)
HandleFileUploadResolve ==
    \E i \in DOMAIN uploadReqs, front \in BOOLEAN :
        /\ uploads < Len(FileIds)
        /\ Completion("handleFileUpload.then", uploadReqs[i],
                      handleFileUploadThen(uploadReqs[i],
                                           [Cur EXCEPT !.uploadReqs = Without(@, i)]),
                      NoFresh)
        /\ serverFiles' = IF front THEN <<FileIds[uploads + 1]>> \o serverFiles
                                   ELSE Append(serverFiles, FileIds[uploads + 1])
        /\ uploads' = uploads + 1

HandleFileUploadReject ==
    \E i \in DOMAIN uploadReqs :
        /\ Completion("handleFileUpload.catch", uploadReqs[i],
                      handleFileUploadCatch([Cur EXCEPT !.uploadReqs = Without(@, i)]),
                      NoFresh)
        /\ UNCHANGED << serverFiles, uploads >>

(* a file is removed from the remote service *)
ServerDelete ==
    \E i \in DOMAIN serverFiles :
        /\ steps < MaxSteps
        /\ steps' = steps + 1
        /\ serverFiles' = Without(serverFiles, i)
        /\ ev' = [op |-> "serverDelete", arg |-> serverFiles[i], pre |-> Pre,
                  failed |-> ev.failed]
        /\ UNCHANGED << variant, view, uploads >>

-----------------------------------------------------------------------------
(* The specification *)

InitServerFiles == { <<>>, <<"f1", "f2">> }

(* the state after the first render and its effects: fetchFiles is issued, *)
(* fetchData and fetchChartData return at once, nothing being selected     *)
Init ==
    /\ variant \in Variants
    /\ serverFiles \in InitServerFiles
    /\ uploads = IF serverFiles = <<>> THEN 0
                 ELSE CHOOSE i \in DOMAIN FileIds :
                          FileIds[i] = serverFiles[Len(serverFiles)]
    /\ files = <<>>
    /\ selectedFileId = null
    /\ tableData = noData
    /\ chartData = noData
    /\ currentPage = 1
    /\ pageSize = 10
    /\ sortColumn = null
    /\ sortOrder = "asc"
    /\ sorting = <<>>
    /\ searchQuery = ""
    /\ globalFilter = ""
    /\ selectedXColumn = null
    /\ selectedYColumn = null
    /\ selectedChartType = "bar"
    /\ isLoadingTable = FALSE
    /\ isLoadingChart = FALSE
    /\ isUploading = FALSE
    /\ fileUploadError = null
    /\ dataFetchError = null
    /\ chartFetchError = null
    /\ filesReqs = << [sel |-> null, by |-> "effect"] >>
    /\ dataReqs = <<>>
    /\ chartReqs = <<>>
    /\ uploadReqs = <<>>
    /\ steps = 0
    /\ ev = [op |-> "mount", arg |-> "",
             pre |-> [ selectedFileId |-> null, currentPage |-> 1, pageSize |-> 10,
                       sortColumn |-> null, sortOrder |-> "asc", sorting |-> <<>>,
                       searchQuery |-> "", globalFilter |-> "",
                       selectedChartType |-> "bar",
                       selectedXColumn |-> null, selectedYColumn |-> null,
                       dataFetchError |-> null ],
             failed |-> {}]

Next ==
    \/ HandleFileSelect
    \/ HandleSort
    \/ SearchOnChange
    \/ PaginationPrevious
    \/ PaginationNext
    \/ PageSizeOnValueChange
    \/ OnSortingChange
    \/ OnPaginationChange
    \/ FilterOnChange
    \/ ChartTypeOnValueChange
    \/ XColumnOnValueChange
    \/ YColumnOnValueChange
    \/ HandleFileUpload
    \/ FetchFilesResolve
    \/ FetchFilesReject
    \/ FetchDataResolve
    \/ FetchDataReject
    \/ FetchChartDataResolve
    \/ FetchChartDataReject
    \/ HandleFileUploadResolve
    \/ HandleFileUploadReject
    \/ ServerDelete

Spec == Init /\ [][Next]_vars

-----------------------------------------------------------------------------
(* The specification for what happens once the user stops: at most         *)
(* MaxActions user actions (and removals at the service), steps counting   *)
(* these alone; every request in flight is answered or fails, however many *)
(* the answers cause to be issued.                                         *)

FetchFilesSettles ==
    \E i \in DOMAIN filesReqs :
        /\ \/ Commit("fetchFiles.catch", filesReqs[i],
                     fetchFilesCatch([Cur EXCEPT !.filesReqs = Without(@, i)]),
                     NoFresh)
           \/ Commit("fetchFiles.then", filesReqs[i],
                     fetchFilesThen(filesReqs[i], serverFiles,
                                    [Cur EXCEPT !.filesReqs = Without(@, i)]),
                     NoFresh)
        /\ UNCHANGED << serverFiles, uploads, steps >>

FetchDataSettles ==
    \E i \in DOMAIN dataReqs :
        /\ \/ Commit("fetchData.catch", dataReqs[i],
                     fetchDataCatch([Cur EXCEPT !.dataReqs = Without(@, i)]),
                     NoFresh)
           \/ Commit("fetchData.then", dataReqs[i],
                     fetchDataThen(dataReqs[i],
                                   [Cur EXCEPT !.dataReqs = Without(@, i)]),
                     [NoFresh EXCEPT !.tableData = TRUE])
        /\ UNCHANGED << serverFiles, uploads, steps >>

FetchChartDataSettles ==
    \E i \in DOMAIN chartReqs :
        /\ \/ Commit("fetchChartData.catch", chartReqs[i],
                     fetchChartDataCatch([Cur EXCEPT !.chartReqs = Without(@, i)]),
                     NoFresh)
           \/ Commit("fetchChartData.then", chartReqs[i],
                     fetchChartDataThen(chartReqs[i],
                                        [Cur EXCEPT !.chartReqs = Without(@, i)]),
                     NoFresh)
        /\ UNCHANGED << serverFiles, uploads, steps >>

HandleFileUploadSettles ==
    \E i \in DOMAIN uploadReqs :
        \/ /\ Commit("handleFileUpload.catch", uploadReqs[i],
                      handleFileUploadCatch([Cur EXCEPT !.uploadReqs = Without(@, i)]),
                      NoFresh)
           /\ UNCHANGED << serverFiles, uploads, steps >>
        \/ \E front \in BOOLEAN :
              /\ uploads < Len(FileIds)
              /\ Commit("handleFileUpload.then", uploadReqs[i],
                        handleFileUploadThen(uploadReqs[i],
                                             [Cur EXCEPT !.uploadReqs = Without(@, i)]),
                        NoFresh)
              /\ serverFiles' = IF front THEN <<FileIds[uploads + 1]>> \o serverFiles
                                         ELSE Append(serverFiles, FileIds[uploads + 1])
              /\ uploads' = uploads + 1
              /\ UNCHANGED steps

NextFair ==
    \/ steps < MaxActions /\ HandleFileSelect
    \/ steps < MaxActions /\ HandleSort
    \/ steps < MaxActions /\ SearchOnChange
    \/ steps < MaxActions /\ PaginationPrevious
    \/ steps < MaxActions /\ PaginationNext
    \/ steps < MaxActions /\ PageSizeOnValueChange
    \/ steps < MaxActions /\ OnSortingChange
    \/ steps < MaxActions /\ OnPaginationChange
    \/ steps < MaxActions /\ FilterOnChange
    \/ steps < MaxActions /\ ChartTypeOnValueChange
    \/ steps < MaxActions /\ XColumnOnValueChange
    \/ steps < MaxActions /\ YColumnOnValueChange
    \/ steps < MaxActions /\ HandleFileUpload
    \/ steps < MaxActions /\ ServerDelete
    \/ FetchFilesSettles
    \/ FetchDataSettles
    \/ FetchChartDataSettles
    \/ HandleFileUploadSettles

(* every awaited request settles: fetch() resolves or rejects *)
SpecFair ==
    /\ Init
    /\ [][NextFair]_vars
    /\ WF_vars(FetchFilesSettles)
    /\ WF_vars(FetchDataSettles)
    /\ WF_vars(FetchChartDataSettles)
    /\ WF_vars(HandleFileUploadSettles)

-----------------------------------------------------------------------------
(* Properties *)

(* the filter text of the running variant *)
FilterText == IF variant = "manual" THEN searchQuery ELSE globalFilter

(* the filter text an event began with *)
PreFilterText ==
    IF variant = "manual" THEN ev.pre.searchQuery ELSE ev.pre.globalFilter

(* a sort column is set in the running variant *)
HasSort == IF variant = "manual" THEN sortColumn # null ELSE Len(sorting) > 0

PreHasSort ==
    IF variant = "manual" THEN ev.pre.sortColumn # null
                          ELSE Len(ev.pre.sorting) > 0

(* C1: supersession on the table-page stream.  When the committed table    *)
(* page is the current key's and a fetch issued under another key then     *)
(* resolves successfully, the committed table page stays as it is.         *)
C1_Supersession ==
    [][ ( /\ ev'.op = "fetchData.then"
          /\ tableData # noData
          /\ tableData.key = TableKey
          /\ KeyOf(ev'.arg) # TableKey )
        => tableData' = tableData ]_vars

(* C2: page reset, manual variant.  Immediately after handleSort, a change *)
(* of the search input, a page-size selection or handleFileSelect,         *)
(* currentPage is 1.                                                       *)
C2_PageResetManual ==
    ( /\ variant = "manual"
      /\ ev.op \in { "handleSort", "searchOnChange", "pageSizeOnValueChange",
                     "handleFileSelect" } )
    => currentPage = 1

(* C3: page reset, table variant.  Immediately after onSortingChange, a    *)
(* change of the filter input, handleFileSelect, or an onPaginationChange  *)
(* that changes pageSize (whatever pageIndex it carries), currentPage is 1 *)
C3_PageResetTable ==
    ( /\ variant = "table"
      /\ \/ ev.op \in { "onSortingChange", "filterOnChange", "handleFileSelect" }
         \/ ev.op = "onPaginationChange" /\ ev.arg.pageSize # ev.pre.pageSize )
    => currentPage = 1

(* a sort change made on page 2 or later, in the table variant *)
C3_Witness ==
    /\ variant = "table"
    /\ ev.op = "onSortingChange"
    /\ ev.pre.currentPage > 1
    /\ currentPage = 1

(* C4: the failure of a table-page or chart fetch whose key is no longer   *)
(* the stream's current key sets no error, clears no committed result and  *)
(* leaves the stream's loading flag as it is.                              *)
C4_StaleFailureDiscarded ==
    [][ /\ ( ev'.op = "fetchData.catch" /\ KeyOf(ev'.arg) # TableKey )
           => /\ dataFetchError' = dataFetchError
              /\ tableData' = tableData
              /\ isLoadingTable' = isLoadingTable
        /\ ( ev'.op = "fetchChartData.catch" /\ ev'.arg # ChartKey )
           => /\ chartFetchError' = chartFetchError
              /\ chartData' = chartData
              /\ isLoadingChart' = isLoadingChart ]_vars

(* C5: a failing chart fetch leaves the committed table page, the table    *)
(* error and the table loading flag unchanged.                             *)
C5_ChartFailureKeepsTable ==
    [][ ev'.op = "fetchChartData.catch"
        => /\ tableData' = tableData
           /\ dataFetchError' = dataFetchError
           /\ isLoadingTable' = isLoadingTable ]_vars

(* a chart fetch has failed and the table is Ready with its page *)
C5_Witness ==
    /\ ev.op = "fetchChartData.catch"
    /\ chartFetchError = ChartError
    /\ tableData # noData
    /\ dataFetchError = null
    /\ ~isLoadingTable

(* C6: the dataset-list stream and the table-page stream have separate     *)
(* error slots: a failed dataset-list fetch leaves the table-page error as *)
(* it is, and issuing or completing a table-page fetch leaves an error of  *)
(* the dataset-list fetch in place.                                        *)
C6_OwnErrorSlots ==
    [][ /\ ev'.op = "fetchFiles.catch" => dataFetchError' = dataFetchError
        /\ ( /\ dataFetchError = FilesError
             /\ \/ ev'.op \in { "fetchData.then", "fetchData.catch" }
                \/ Len(dataReqs') > Len(dataReqs) )
           => dataFetchError' = FilesError ]_vars

(* C7: a failing table-page fetch leaves the committed chart projection,   *)
(* the chart error, the X/Y columns and the chart type unchanged.          *)
C7_TableFailureKeepsChart ==
    [][ ev'.op = "fetchData.catch"
        => /\ chartData' = chartData
           /\ chartFetchError' = chartFetchError
           /\ selectedXColumn' = selectedXColumn
           /\ selectedYColumn' = selectedYColumn
           /\ selectedChartType' = selectedChartType ]_vars

(* a table-page fetch has failed while a chart projection is committed *)
C7_Witness ==
    /\ ev.op = "fetchData.catch"
    /\ dataFetchError = DataError
    /\ tableData = noData
    /\ chartData # noData
    /\ chartFetchError = null
    /\ selectedXColumn # null
    /\ selectedYColumn # null

(* C8: sort tri-state.  handleSort on column A goes no-sort -> A asc ->    *)
(* A desc -> no-sort: from no sort it sets A ascending, from A ascending   *)
(* A descending, from A descending no sort column.                         *)
C8_SortTriState ==
    ( variant = "manual" /\ ev.op = "handleSort" )
    => /\ ev.pre.sortColumn = null
          => sortColumn = ev.arg /\ sortOrder = "asc"
       /\ ( ev.pre.sortColumn = ev.arg /\ ev.pre.sortOrder = "asc" )
          => sortColumn = ev.arg /\ sortOrder = "desc"
       /\ ( ev.pre.sortColumn = ev.arg /\ ev.pre.sortOrder = "desc" )
          => sortColumn = null

(* C9: handleSort on a column other than the current sort column sets that *)
(* column ascending, whatever the sort was before.                         *)
C9_NewColumnAscending ==
    ( /\ variant = "manual"
      /\ ev.op = "handleSort"
      /\ ev.arg # ev.pre.sortColumn )
    => sortColumn = ev.arg /\ sortOrder = "asc"

(* the sort was on another column, descending, when handleSort was called *)
C9_Witness ==
    /\ variant = "manual"
    /\ ev.op = "handleSort"
    /\ ev.pre.sortColumn # null
    /\ ev.pre.sortColumn # ev.arg
    /\ ev.pre.sortOrder = "desc"
    /\ sortColumn = ev.arg

(* C10: handleFileSelect(id) selects id, sets the page to 1, clears the    *)
(* sort column (the table-page request of the new view state names no      *)
(* sort column) and the filter text, and leaves pageSize and the chart     *)
(* type as they were.                                                      *)
C10_SelectDataset ==
    ev.op = "handleFileSelect"
    => /\ selectedFileId = ev.arg
       /\ currentPage = 1
       /\ ~HasSort
       /\ TableKey.sort_by \in { null, undefined }
       /\ FilterText = ""
       /\ TableKey.search_query = ""
       /\ pageSize = ev.pre.pageSize
       /\ selectedChartType = ev.pre.selectedChartType

(* another dataset was selected with a sort and a filter set *)
C10_Witness ==
    /\ ev.op = "handleFileSelect"
    /\ ev.arg # ev.pre.selectedFileId
    /\ PreHasSort
    /\ PreFilterText # ""
    /\ selectedFileId = ev.arg

(* C11: page bounds on navigation.  currentPage is at least 1 in every     *)
(* reachable state, and with a table page loaded Previous / Next leave it  *)
(* within 1 .. ceil(total_count / pageSize) (page 1 when the result set is *)
(* empty).                                                                 *)
C11_PageBounds ==
    /\ currentPage >= 1
    /\ ( /\ \/ ev.op \in { "paginationPrevious", "paginationNext" }
            \/ ev.op = "onPaginationChange" /\ ev.arg.pageSize = ev.pre.pageSize
         /\ tableData # noData )
       => currentPage <= Max(1, totalPages(Cur))

(* C12: out-of-range page correction.  The controller is never Ready (not  *)
(* loading, no error) with the committed answer to the current table-page  *)
(* key being an empty page while currentPage lies beyond the last page,    *)
(* ceil(total_count / pageSize): the page is clamped or the answer is      *)
(* turned into an error.                                                   *)
C12_OutOfRangeCorrected ==
    ~( /\ tableData # noData
       /\ tableData.key = TableKey
       /\ ~isLoadingTable
       /\ dataFetchError = null
       /\ Len(tableData.data) = 0
       /\ currentPage > Max(1, totalPages(Cur)) )

(* C13: inference never overwrites a valid X or Y column.  When a          *)
(* table-page fetch completes and commits a page whose columns contain the *)
(* current selectedXColumn (selectedYColumn), that selection is unchanged. *)
C13_ValidChoiceKept ==
    [][ ( ev'.op = "fetchData.then" /\ tableData' # noData )
        => /\ ( selectedXColumn # null
                /\ Includes(tableData'.columns, selectedXColumn) )
              => selectedXColumn' = selectedXColumn
           /\ ( selectedYColumn # null
                /\ Includes(tableData'.columns, selectedYColumn) )
              => selectedYColumn' = selectedYColumn ]_vars

(* C14: X-column inference.  When a table-page fetch completes and commits *)
(* a page with a non-empty column list, selectedXColumn becomes columns[0] *)
(* if it was null or not one of the columns, and is unchanged otherwise.   *)
C14_InferXColumn ==
    [][ ( /\ ev'.op = "fetchData.then"
          /\ tableData' # noData
          /\ Len(tableData'.columns) > 0 )
        => selectedXColumn' =
             IF selectedXColumn = null
                \/ ~Includes(tableData'.columns, selectedXColumn)
             THEN tableData'.columns[1]
             ELSE selectedXColumn ]_vars

(* C15: Y-column inference.  When a table-page fetch completes and commits *)
(* a page with a non-empty column list while selectedYColumn is null or    *)
(* not one of the columns, selectedYColumn becomes the first column, in    *)
(* column order, with a number in one of the first 5 rows of the page; if  *)
(* there is none, columns[1], or columns[0] when it is the only column.    *)
C15_InferYColumn ==
    [][ ( /\ ev'.op = "fetchData.then"
          /\ tableData' # noData
          /\ Len(tableData'.columns) > 0
          /\ ( selectedYColumn = null
               \/ ~Includes(tableData'.columns, selectedYColumn) ) )
        => LET cols == tableData'.columns
               rows == tableData'.data
               numeric(j) == \E i \in DOMAIN rows :
                                 i <= 5 /\ rows[i][cols[j]] = "number"
           IN  selectedYColumn' =
                 IF \E j \in DOMAIN cols : numeric(j)
                 THEN cols[CHOOSE j \in DOMAIN cols :
                              numeric(j) /\ \A k \in DOMAIN cols : numeric(k) => j <= k]
                 ELSE IF Len(cols) > 1 THEN cols[2] ELSE cols[1] ]_vars

(* C16: when a table-page fetch completes and commits a page with an empty *)
(* column list, selectedXColumn and selectedYColumn are both null,         *)
(* whatever they were before.                                              *)
C16_EmptyColumnsClear ==
    ( /\ ev.op = "fetchData.then"
      /\ tableData # noData
      /\ Len(tableData.columns) = 0 )
    => selectedXColumn = null /\ selectedYColumn = null

(* a page without columns was committed while X and Y were both set *)
C16_Witness ==
    /\ ev.op = "fetchData.then"
    /\ tableData # noData
    /\ Len(tableData.columns) = 0
    /\ ev.pre.selectedXColumn # null
    /\ ev.pre.selectedYColumn # null
    /\ selectedXColumn = null
    /\ selectedYColumn = null

(* C17: the loading flag of the table-page and of the chart stream stays   *)
(* true while the most recently issued fetch of the stream is in flight:   *)
(* when the flag is true (so the last fetch issued is the last in flight)  *)
(* and another, earlier fetch of the stream completes, the flag stays true *)
C17_LoadingUntilCurrentDone ==
    [][ /\ ( /\ ev'.op \in { "fetchData.then", "fetchData.catch" }
             /\ isLoadingTable
             /\ ev'.arg # dataReqs[Len(dataReqs)] )
           => isLoadingTable'
        /\ ( /\ ev'.op \in { "fetchChartData.then", "fetchChartData.catch" }
             /\ isLoadingChart
             /\ ev'.arg # chartReqs[Len(chartReqs)] )
           => isLoadingChart' ]_vars

(* C18: minimal fetches on the table-page stream.  A step issues a         *)
(* table-page fetch (the requests in flight grow, the one just completed   *)
(* not counted) only if it changes the table-page key; in particular a     *)
(* change of the chart type or of the X / Y column alone issues none.      *)
C18_MinimalTableFetches ==
    [][ Len(dataReqs') > Len(dataReqs)
                           - ( IF ev'.op \in { "fetchData.then", "fetchData.catch" }
                               THEN 1 ELSE 0 )
        => TableKey' # TableKey ]_vars

(* C19: after the initial load a dataset-list fetch is issued only by a    *)
(* successful upload: no other step (a selection, an auto-selection, a     *)
(* failed upload, any view-state change) adds a GET /files/ request.       *)
C19_ListFetchOnlyAfterUpload ==
    [][ Len(filesReqs') > Len(filesReqs)
                            - ( IF ev'.op \in { "fetchFiles.then", "fetchFiles.catch" }
                                THEN 1 ELSE 0 )
        => ev'.op = "handleFileUpload.then" ]_vars

(* C20: a successful upload issues a dataset-list fetch, and when that     *)
(* fetch answers a non-empty list while no dataset is selected (none was   *)
(* when the upload began either), the newest entry of the list, the one    *)
(* stored last, becomes the selected dataset, wherever it is in the list.  *)
C20_UploadSelectsNewest ==
    [][ /\ ev'.op = "handleFileUpload.then"
           => \E i \in DOMAIN filesReqs' : filesReqs'[i].by = "upload"
        /\ ( /\ ev'.op = "fetchFiles.then"
             /\ ev'.arg.by = "upload"
             /\ ev'.arg.sel = null
             /\ selectedFileId = null
             /\ Len(files') > 0 )
           => \E i \in DOMAIN FileIds :
                 /\ selectedFileId' = FileIds[i]
                 /\ Includes(files', FileIds[i])
                 /\ \A j \in DOMAIN FileIds :
                       Includes(files', FileIds[j]) => j <= i ]_vars

(* C21: selection fallback.  When a dataset-list fetch commits and the     *)
(* dataset selected until then is not in the fetched list, the selection   *)
(* becomes the first dataset of the list, or null when the list is empty;  *)
(* after every committed list fetch the selection is null or in the list.  *)
C21_SelectionFallback ==
    [][ ev'.op = "fetchFiles.then"
        => /\ ( selectedFileId # null /\ ~Includes(files', selectedFileId) )
              => selectedFileId' = IF Len(files') > 0 THEN files'[1] ELSE null
           /\ selectedFileId' = null \/ Includes(files', selectedFileId') ]_vars

(* C22: no automatic retry.  Once a fetch of a stream has failed, and      *)
(* until a user-driven event or the completion of an upload, no step       *)
(* issues a fetch on that stream: not the failing completion itself, and   *)
(* no later completion.                                                    *)
C22_NoAutomaticRetry ==
    [][ ( \/ ev'.op \in DOMAIN FailedStream
          \/ ev'.op \in { "fetchFiles.then", "fetchData.then",
                          "fetchChartData.then", "serverDelete" } )
        => /\ ( "table" \in ev'.failed )
              => Len(dataReqs') <= Len(dataReqs)
                     - ( IF ev'.op \in { "fetchData.then", "fetchData.catch" }
                         THEN 1 ELSE 0 )
           /\ ( "chart" \in ev'.failed )
              => Len(chartReqs') <= Len(chartReqs)
                     - ( IF ev'.op \in { "fetchChartData.then",
                                         "fetchChartData.catch" }
                         THEN 1 ELSE 0 )
           /\ ( "files" \in ev'.failed )
              => Len(filesReqs') <= Len(filesReqs)
                     - ( IF ev'.op \in { "fetchFiles.then", "fetchFiles.catch" }
                         THEN 1 ELSE 0 ) ]_vars

(* C23: retry by re-selection.  When the table-page stream is Failed with  *)
(* a dataset selected, on page 1, with no sort and an empty filter,        *)
(* handleFileSelect with the selected id issues a table-page fetch, clears *)
(* the error and sets loading.                                             *)
C23_RetryByReselection ==
    ( /\ dataFetchError = DataError
      /\ ~isLoadingTable
      /\ selectedFileId # null
      /\ currentPage = 1
      /\ ~HasSort
      /\ FilterText = "" )
    => LET s == Settle(Cur, handleFileSelect(Cur, selectedFileId),
                       [NoFresh EXCEPT !.sorting = (variant = "table")])
       IN  /\ Len(s.dataReqs) > Len(dataReqs)
           /\ s.isLoadingTable
           /\ s.dataFetchError = null

(* C24: the chart type, X column and Y column selections leave the page,   *)
(* the page size, the sort, the filter text and the selected dataset as    *)
(* they were.                                                              *)
C24_ChartChoicesKeepView ==
    ev.op \in { "chartTypeOnValueChange", "xColumnOnValueChange",
                "yColumnOnValueChange" }
    => /\ currentPage = ev.pre.currentPage
       /\ pageSize = ev.pre.pageSize
       /\ sortColumn = ev.pre.sortColumn
       /\ sortOrder = ev.pre.sortOrder
       /\ sorting = ev.pre.sorting
       /\ FilterText = PreFilterText
       /\ selectedFileId = ev.pre.selectedFileId

(* an X column was chosen while a sort was set *)
C24_Witness ==
    /\ ev.op = "xColumnOnValueChange"
    /\ PreHasSort
    /\ selectedXColumn = ev.arg
    /\ selectedXColumn # ev.pre.selectedXColumn

C26_PageSizeInSet == pageSize \in {5, 10, 25, 50}

(* the page size was changed from its initial value to another one *)
C26_Witness ==
    /\ ev.op \in { "pageSizeOnValueChange", "onPaginationChange" }
    /\ ev.pre.pageSize = 10
    /\ pageSize # 10

(* C27: the table-page state machine.  The failure of the table-page fetch *)
(* for the current key leaves the stream Failed (error set, not loading);  *)
(* a step that issues a table-page fetch while the stream is Failed leaves *)
(* it Loading (error cleared, loading set).                                *)
C27_FailedThenLoading ==
    [][ /\ ( ev'.op = "fetchData.catch" /\ KeyOf(ev'.arg) = TableKey )
           => dataFetchError' = DataError /\ ~isLoadingTable'
        /\ ( /\ dataFetchError = DataError
             /\ ~isLoadingTable
             /\ Len(dataReqs') > Len(dataReqs)
                   - ( IF ev'.op \in { "fetchData.then", "fetchData.catch" }
                       THEN 1 ELSE 0 ) )
           => dataFetchError' = null /\ isLoadingTable' ]_vars

(* a change of the search text re-issued the fetch of a Failed stream *)
C27_Witness ==
    /\ ev.op = "searchOnChange"
    /\ ev.pre.dataFetchError = DataError
    /\ dataFetchError = null
    /\ isLoadingTable
    /\ Len(dataReqs) > 0

(* C28: the page reset covers a change of the selected dataset made by a   *)
(* dataset-list fetch (auto-selection or fallback): in the resulting state *)
(* the page is 1, no sort is set and the filter text is empty.             *)
C28_ListSelectionResetsView ==
    [][ ( ev'.op = "fetchFiles.then" /\ selectedFileId' # selectedFileId )
        => /\ currentPage' = 1
           /\ ~HasSort'
           /\ FilterText' = "" ]_vars

(* C29: a dataset-list fetch never changes a selection that is in the list *)
(* it commits: when the selected dataset is one of the fetched files, the  *)
(* selection is the same after the commit.                                 *)
C29_RefreshKeepsSelection ==
    [][ ( /\ ev'.op = "fetchFiles.then"
          /\ selectedFileId # null
          /\ Includes(files', selectedFileId) )
        => selectedFileId' = selectedFileId ]_vars

(* C30: every change of the table-page key with a dataset selected issues  *)
(* a table-page fetch for the new key: after the step the most recently    *)
(* issued request carries the current dataset, page, page size, sort and   *)
(* the whole current filter text.                                          *)
C30_FetchFollowsKey ==
    [][ ( TableKey' # TableKey /\ selectedFileId' # null )
        => /\ Len(dataReqs') > 0
           /\ KeyOf(dataReqs'[Len(dataReqs')]) = TableKey' ]_vars

(* the filter text was edited twice in a row, each edit issuing its fetch *)
C30_Witness ==
    /\ ev.op \in { "filterOnChange", "searchOnChange" }
    /\ PreFilterText = "q"
    /\ FilterText = "qr"
    /\ Len(dataReqs) >= 2
    /\ dataReqs[Len(dataReqs)].search_query = "qr"
    /\ dataReqs[Len(dataReqs) - 1].search_query = "q"

(* C31: every chart fetch in flight was issued with an X column and a Y    *)
(* column that are columns of the dataset it asks for.                     *)
C31_ChartColumnsOfDataset ==
    \A i \in DOMAIN chartReqs :
        /\ Includes(Columns(chartReqs[i].file), chartReqs[i].x_column)
        /\ Includes(Columns(chartReqs[i].file), chartReqs[i].y_column)

PreSideBySide ==
    [ev.pre EXCEPT !.searchQuery = PreFilterText,
                   !.globalFilter = PreFilterText]

(* C35 as amended: run side by side on the same handleFileSelect from the  *)
(* same state with a non-empty filter, both variants reset the filter      *)
(* text, and the running variant's filter text is the one its handler      *)
(* computes.                                                               *)
C35_BothVariantsResetFilter ==
    ( ev.op = "handleFileSelect" /\ PreFilterText # "" )
    => /\ handleFileSelectManual(PreSideBySide, ev.arg).searchQuery = ""
       /\ handleFileSelectTable(PreSideBySide, ev.arg).globalFilter = ""
       /\ FilterText =
             IF variant = "manual"
             THEN handleFileSelectManual(PreSideBySide, ev.arg).searchQuery
             ELSE handleFileSelectTable(PreSideBySide, ev.arg).globalFilter

(* C35 as stated: run side by side on the same handleFileSelect from the   *)
(* same state with a non-empty filter, one variant resets the filter text  *)
(* and the other does not.                                                 *)
C35_VariantsDifferOnFilterReset ==
    ( ev.op = "handleFileSelect" /\ PreFilterText # "" )
    => ( handleFileSelectManual(PreSideBySide, ev.arg).searchQuery = "" )
       # ( handleFileSelectTable(PreSideBySide, ev.arg).globalFilter = "" )

(* another dataset was selected while a filter was set, and the two        *)
(* handlers agree on the filter text                                       *)
C35_Witness ==
    /\ ev.op = "handleFileSelect"
    /\ ev.arg # ev.pre.selectedFileId
    /\ PreFilterText # ""
    /\ FilterText = ""
    /\ handleFileSelectManual(PreSideBySide, ev.arg).searchQuery
          = handleFileSelectTable(PreSideBySide, ev.arg).globalFilter

(* no request in flight on any stream and neither loading flag set *)
Quiet ==
    /\ filesReqs = <<>>
    /\ dataReqs = <<>>
    /\ chartReqs = <<>>
    /\ uploadReqs = <<>>
    /\ ~isLoadingTable
    /\ ~isLoadingChart

(* C34: quiescence.  The user acting finitely often and every request      *)
(* settling, the dashboard reaches, and from then on stays in, a state     *)
(* with no request in flight and both loading flags false: the requests    *)
(* that inference and the list fetch's selection cause are finitely many.  *)
C34_Quiescence == <>[]Quiet

(* quiet after the user's last action, a dataset selected by the list      *)
(* fetch, both axes set by inference, table and chart loaded               *)
C34_Witness ==
    /\ Quiet
    /\ steps = MaxActions
    /\ ev.op \in { "fetchData.then", "fetchChartData.then" }
    /\ selectedFileId # null
    /\ selectedXColumn # null
    /\ selectedYColumn # null
    /\ tableData # noData
    /\ chartData # noData

====
